---------------------------- MODULE Spec2Model ----------------------------
(***************************************************************************)
(* Model of Flask-Backend/main.py: the practice pipeline (context          *)
(* extraction, use-case classification, transcript analysis) and the       *)
(* credit ledger kept on the user records of the document store.           *)
(*                                                                         *)
(* Every request is handled by an independent worker.  A handler is cut    *)
(* into one action per round trip to the store (get / set / update /       *)
(* push), because nothing in the code makes two round trips atomic; the    *)
(* code between two round trips (model calls, parsing, arithmetic) only    *)
(* touches the worker's locals and belongs to the action that follows it.  *)
(* Every store call and every model call may raise.                        *)
(*                                                                         *)
(* Texts are abstracted to [id, len]: a name and a length in characters,   *)
(* so that slicing (text[:1000]) is computed and not assumed.  Record      *)
(* fields that no handler ever reads back to decide anything (email,       *)
(* displayName, createdAt, projectId, userId, sessionId, requestedAt,      *)
(* processedAt) are not represented.                                       *)
(***************************************************************************)
EXTENDS Integers, Sequences, FiniteSets, TLC

\* ------------------------------------------------------------------ bounds
NumWorkers == 2
MaxProjects == 2
MaxSessions == 2
MaxErrorRecords == 2
MaxRequests == 1
MaxCredits == 33
MaxCalls == 4
MaxOverdraft == 1

\* ------------------------------------------------------- program constants
SignupCredits == 30
ProjectCost == 1
CreditsPerMinute == 3
SecondsPerMinute == 60
KeyPointsFallbackLen == 1000
VoiceMinimum == 3

Workers == 1..NumWorkers
Users == {"u1"}
Admins == {"admin"}
Uids == Users \cup Admins

\* ------------------------------------------------------------------- texts
Text(i, n) == [id |-> i, len |-> n]
NoText == Text("None", 0)
\* text[:n]
Prefix(text, n) == Text(text.id, IF text.len < n THEN text.len ELSE n)
\* d.get(key, default) on a stored field: a null field is an absent key
Get(field, default) == IF field = NoText THEN default ELSE field

FallbackDescription == Text("User-provided project document.", 31)
NewProjectTitle == Text("New Project", 11)
BriefingTexts == {Text("pitch", 40), Text("thesis", 1001)}
ModelTexts == {Text("summary", 20)}

\* ------------------------------------------------- use-case classification
JobInterview == <<"Job", " ", "Interview">>
InvestorPitch == <<"Investor", " ", "Pitch">>
AcademicPresentation == <<"Academic", " ", "Presentation">>
valid_categories == {JobInterview, InvestorPitch, AcademicPresentation}

Whitespace == {" ", "\n"}
Quotes == {"'", "\""}

RECURSIVE LStrip(_)
LStrip(s) == IF s # <<>> /\ Head(s) \in Whitespace THEN LStrip(Tail(s)) ELSE s

RECURSIVE RStrip(_)
RStrip(s) ==
    IF s # <<>> /\ s[Len(s)] \in Whitespace THEN RStrip(SubSeq(s, 1, Len(s) - 1)) ELSE s

\* str.strip()
Strip(s) == RStrip(LStrip(s))

\* .replace("'", "").replace('"', '')
RemoveQuotes(s) == SelectSeq(s, LAMBDA c : c \notin Quotes)

\* the quotes are removed before the text is trimmed
category_of_quotes_first(response_text) ==
    LET category == Strip(RemoveQuotes(response_text))
    IN  IF category \in valid_categories THEN category ELSE JobInterview

\* detect_use_case_with_gemini, on a model call that returned response_text
category_of(response_text) ==
    LET category == RemoveQuotes(Strip(response_text))
    IN  IF category \in valid_categories THEN category ELSE JobInterview

ResponseWrappers == {<<>>, <<" ">>, <<"'">>, <<"\"", " ">>}
ResponseCores ==
    valid_categories \cup {<<"job", " ", "interview">>, <<"Investor", "'", " ", "Pitch">>, <<>>}
ClassifierResponses ==
    {pre \o core \o post : pre \in ResponseWrappers, core \in ResponseCores,
                           post \in ResponseWrappers}

\* -------------------------------------------------------- context extraction
\* What the model call of the context extraction yields: an exception, text
\* that json.loads rejects, a JSON value that is not an object, or a JSON
\* object holding any subset of the two keys.
ContextOutcomes == {"call_error", "non_json", "not_object", "object"}
ContextData(sd, kp) == [is_dict |-> TRUE, short_description |-> sd, key_points |-> kp]
NotADict == [is_dict |-> FALSE, short_description |-> NoText, key_points |-> NoText]

\* the fallback holds the whole text
summarize_and_extract_context_untruncated(text, outcome, parsed) ==
    IF outcome \in {"call_error", "non_json"}
    THEN ContextData(FallbackDescription, text)
    ELSE parsed

\* summarize_and_extract_context_with_gemini(text), given the outcome of the
\* model call and the parsed value
summarize_and_extract_context(text, outcome, parsed) ==
    IF outcome \in {"call_error", "non_json"}
    THEN ContextData(FallbackDescription, Prefix(text, KeyPointsFallbackLen))
    ELSE parsed

\* the values json.loads can give; fields are the values a key can hold,
\* NoText for a key that is missing
ParsedContexts(outcome, fields) ==
    IF outcome = "not_object" THEN {NotADict}
    ELSE {ContextData(sd, kp) : sd \in fields, kp \in fields}

\* a classifier whose model call fails answers with the default category
detect_use_case_defaulting(call_ok, response_text) ==
    [raised |-> FALSE,
     value |-> IF call_ok THEN category_of(response_text) ELSE JobInterview]

\* detect_use_case_with_gemini(text): the except clause re-raises
detect_use_case_with_gemini(call_ok, response_text) ==
    IF call_ok
    THEN [raised |-> FALSE, value |-> category_of(response_text)]
    ELSE [raised |-> TRUE, value |-> <<>>]

\* ------------------------------------------------------- transcript scoring
\* math.ceil(n / m) for integers n and m > 0
ceil_div(n, m) == IF n % m = 0 THEN n \div m ELSE (n \div m) + 1

\* whole minutes only are billed
cost_of_whole_minutes(duration_seconds) ==
    (duration_seconds \div SecondsPerMinute) * CreditsPerMinute

\* line 200: cost = math.ceil(duration_seconds / 60) * 3
cost_of(duration_seconds) == ceil_div(duration_seconds, SecondsPerMinute) * CreditsPerMinute

Max0(n) == IF n < 0 THEN 0 ELSE n

\* What the scoring model call yields: an exception, text json.loads rejects,
\* or a JSON value (the feedback).  An empty object is a feedback of {}.
ScoringOutcomes == {"call_error", "non_json", "json"}
NoFeedback == "none"

\* lines 186-188: the model call and json.loads, neither guarded
parse_feedback(outcome, parsed) ==
    IF outcome = "call_error" THEN [raised |-> "ModelError", value |-> NoFeedback]
    ELSE IF outcome = "non_json" THEN [raised |-> "JSONDecodeError", value |-> NoFeedback]
    ELSE [raised |-> "none", value |-> parsed]

\* --------------------------------------------------------------- the store
NoUser == [present |-> FALSE, credits |-> 0, is_admin |-> FALSE]
NewUser == [present |-> TRUE, credits |-> SignupCredits, is_admin |-> FALSE]
AdminUser == [present |-> TRUE, credits |-> SignupCredits, is_admin |-> TRUE]

\* the node projects/{uid}/{project_id}; practiceSessions and sessions are
\* maps from ids to records, an empty map is an absent child
EmptyNode ==
    [title |-> NoText, detectedUseCase |-> <<>>, originalBriefingText |-> NoText,
     key_points |-> NoText, short_description |-> NoText,
     practiceSessions |-> <<>>, sessions |-> <<>>]

\* project ids: 0 is an id the client made up, 1..MaxProjects are the uuids
ProjectIds == 0..MaxProjects

\* m[k] = v added to the map m
Put(m, k, v) == [x \in (DOMAIN m) \cup {k} |-> IF x = k THEN v ELSE m[x]]

VARIABLES users, projects, credit_requests,
          next_project_id, next_session_id, next_error_id, next_request_id,
          pc, req, loc, resp, calls

vars == <<users, projects, credit_requests,
          next_project_id, next_session_id, next_error_id, next_request_id,
          pc, req, loc, resp, calls>>

store == <<users, projects, credit_requests>>
ids == <<next_project_id, next_session_id, next_error_id, next_request_id>>

\* a number sent in a request body: n when is_int, otherwise a value that
\* int() rejects
Number(n) == [is_int |-> TRUE, n |-> n]
NotANumber == [is_int |-> FALSE, n |-> 0]

NoReq == [op |-> "none", uid |-> "none", project_id |-> 0, transcript |-> NoText,
          duration_seconds |-> 0, target |-> "none", add_credits |-> Number(0),
          request_id |-> 0, decision |-> "none", title |-> NoText]
NoRequest == [userId |-> "none", requested_credits |-> Number(0), status |-> "none",
              processedBy |-> "none"]
\* the value generate_agent_briefing returns: the base briefing (use case,
\* persona, key points), and what follows it
NoBriefing == [use_case |-> <<>>, persona |-> "", key_points |-> NoText,
               tail |-> "none", directive |-> <<>>]
\* error is the exception the handler logs; project_written, session_written,
\* error_written, debited and credited record which of its writes the request
\* has performed; context_outcome, parsed_context, response_text,
\* classifier_failed and scoring_outcome record what the model answered
NoLoc == [user_credits |-> 0, response_text |-> <<>>, project_id |-> 0,
          context_outcome |-> "none", parsed_context |-> NotADict,
          classifier_failed |-> FALSE, scoring_outcome |-> "none",
          session_id |-> 0, feedback |-> NoFeedback, error |-> "none",
          raised |-> "none", retry |-> FALSE,
          project_written |-> FALSE, session_written |-> FALSE,
          error_written |-> FALSE, debited |-> FALSE, credited |-> FALSE,
          req_data |-> NoRequest, user_found |-> FALSE,
          briefing |-> NoBriefing, model_calls |-> 0, url_requested |-> FALSE]
NoResp == [status |-> 0, cost |-> 0, remaining |-> 0]

\* ------------------------------------------------------------ environments
\* What the clients send and how the collaborators answer in a run.
\* every store call and every model call may fail
FaultEnv ==
    [workers |-> {1},
     store_ok |-> BOOLEAN,
     inputs |-> {"text"},
     texts |-> {Text("pitch", 40)},
     context_outcomes |-> {"object"},
     context_fields |-> ModelTexts,
     classifier_ok |-> BOOLEAN,
     responses |-> {InvestorPitch},
     scoring_outcomes |-> ScoringOutcomes,
     feedbacks |-> {"scores"},
     transcripts |-> {Text("talk", 500)},
     durations |-> {61},
     add_credits |-> {Number(-28)},
     requested_credits |-> {Number(4), NotANumber},
     directive_ok |-> BOOLEAN,
     directives |-> {<<"Probe", " ", "resilience">>},
     agent_configured |-> {TRUE},
     provider_ok |-> BOOLEAN,
     titles |-> {Text("renamed", 7)}]

\* the collaborators work; durations and credit deltas of every sign
LedgerEnv ==
    [workers |-> {1},
     store_ok |-> {TRUE},
     inputs |-> {"text"},
     texts |-> {Text("pitch", 40)},
     context_outcomes |-> {"object"},
     context_fields |-> ModelTexts,
     classifier_ok |-> {TRUE},
     responses |-> {InvestorPitch},
     scoring_outcomes |-> {"json"},
     feedbacks |-> {"scores"},
     transcripts |-> {Text("talk", 500)},
     durations |-> {-60, 0, 1, 60, 61, 125},
     add_credits |-> {Number(-31), Number(-28), NotANumber},
     requested_credits |-> {Number(1), Number(-31)},
     directive_ok |-> {TRUE},
     directives |-> {<<"Probe", " ", "resilience">>},
     agent_configured |-> BOOLEAN,
     provider_ok |-> BOOLEAN,
     titles |-> {Text("renamed", 7)}]

\* create_project with every kind of input and of context extraction result
PipelineEnv ==
    [workers |-> {1},
     store_ok |-> {TRUE},
     inputs |-> {"text", "pdf", "bad_pdf", "other_file", "none"},
     texts |-> BriefingTexts,
     context_outcomes |-> ContextOutcomes,
     context_fields |-> ModelTexts \cup {NoText},
     classifier_ok |-> BOOLEAN,
     responses |-> {AcademicPresentation},
     scoring_outcomes |-> {"json"},
     feedbacks |-> {"scores"},
     transcripts |-> {Text("talk", 500)},
     durations |-> {61},
     add_credits |-> {Number(-28)},
     requested_credits |-> {Number(4)},
     directive_ok |-> {TRUE},
     directives |-> {<<"Probe", " ", "resilience">>},
     agent_configured |-> {TRUE},
     provider_ok |-> {TRUE},
     titles |-> {Text("renamed", 7)}]

\* create_project with every classifier response
ClassifierEnv ==
    [workers |-> {1},
     store_ok |-> {TRUE},
     inputs |-> {"text"},
     texts |-> {Text("pitch", 40)},
     context_outcomes |-> {"object"},
     context_fields |-> ModelTexts,
     classifier_ok |-> BOOLEAN,
     responses |-> ClassifierResponses,
     scoring_outcomes |-> {"json"},
     feedbacks |-> {"scores"},
     transcripts |-> {Text("talk", 500)},
     durations |-> {61},
     add_credits |-> {Number(-28)},
     requested_credits |-> {Number(4)},
     directive_ok |-> {TRUE},
     directives |-> {<<"Probe", " ", "resilience">>},
     agent_configured |-> {TRUE},
     provider_ok |-> {TRUE},
     titles |-> {Text("renamed", 7)}]

\* briefings over sessions with every kind of stored feedback and every
\* outcome of the directive call
BriefingEnv ==
    [workers |-> {1},
     store_ok |-> {TRUE},
     inputs |-> {"text"},
     texts |-> {Text("pitch", 40)},
     context_outcomes |-> {"object"},
     context_fields |-> {Text("points", 200), NoText},
     classifier_ok |-> {TRUE},
     responses |-> {InvestorPitch},
     scoring_outcomes |-> {"json"},
     feedbacks |-> {"scores", "empty_object", "array"},
     transcripts |-> {Text("talk", 500)},
     durations |-> {61},
     add_credits |-> {Number(-28)},
     requested_credits |-> {Number(1)},
     directive_ok |-> BOOLEAN,
     directives |-> {<<"Probe", " ", "resilience">>,
                     <<"\n", "Probe", " ", "resilience", " ", "\n">>, <<" ">>},
     agent_configured |-> {TRUE},
     provider_ok |-> {TRUE},
     titles |-> {Text("renamed", 7)}]

\* two workers handle requests at the same time; the collaborators work
ConcurrentEnv ==
    [workers |-> {1, 2},
     store_ok |-> {TRUE},
     inputs |-> {"text"},
     texts |-> {Text("pitch", 40)},
     context_outcomes |-> {"object"},
     context_fields |-> ModelTexts,
     classifier_ok |-> {TRUE},
     responses |-> {InvestorPitch},
     scoring_outcomes |-> {"json"},
     feedbacks |-> {"scores"},
     transcripts |-> {Text("talk", 500)},
     durations |-> {61},
     add_credits |-> {Number(-29)},
     requested_credits |-> {Number(1)},
     directive_ok |-> {TRUE},
     directives |-> {<<"Probe", " ", "resilience">>},
     agent_configured |-> {TRUE},
     provider_ok |-> {TRUE},
     titles |-> {Text("renamed", 7)}]

Init ==
    /\ users = [u \in Uids |-> IF u \in Admins THEN AdminUser ELSE NoUser]
    /\ projects = [u \in Uids |-> [p \in ProjectIds |-> EmptyNode]]
    /\ credit_requests = <<>>
    /\ next_request_id = 1
    /\ next_project_id = 1
    /\ next_session_id = 1
    /\ next_error_id = 1
    /\ pc = [w \in Workers |-> "idle"]
    /\ req = [w \in Workers |-> NoReq]
    /\ loc = [w \in Workers |-> NoLoc]
    /\ resp = [w \in Workers |-> NoResp]
    /\ calls = 0

Free(w) == pc[w] \in {"idle", "done"}

\* a worker takes the next request of the run
Accept(w) ==
    /\ Free(w)
    /\ calls < MaxCalls
    /\ calls' = calls + 1

\* the handler returns (or Flask turns an uncaught exception into a 500)
Finish(w, status) ==
    /\ pc' = [pc EXCEPT ![w] = "done"]
    /\ resp' = [resp EXCEPT ![w] = [NoResp EXCEPT !.status = status]]

Goto(w, label) ==
    /\ pc' = [pc EXCEPT ![w] = label]
    /\ resp' = [resp EXCEPT ![w] = NoResp]

\* ----------------------------------------------------------------- sign-up
\* signup: auth.create_user gives a new uid, one that has no record yet and
\* for which no request can be in flight
signup(w, E) ==
    /\ Accept(w)
    /\ \E uid \in Users, ok \in E.store_ok :
        /\ ~users[uid].present
        /\ \A v \in Workers : ~Free(v) => req[v].uid # uid
        /\ req' = [req EXCEPT ![w] = [NoReq EXCEPT !.op = "signup", !.uid = uid]]
        /\ IF ok
           THEN /\ users' = [users EXCEPT ![uid] = NewUser]
                /\ loc' = [loc EXCEPT ![w] = NoLoc]
                /\ Finish(w, 201)
           ELSE /\ UNCHANGED users
                /\ loc' = [loc EXCEPT ![w] = [NoLoc EXCEPT !.error = "StoreError"]]
                /\ Finish(w, 400)
    /\ UNCHANGED <<projects, credit_requests, ids>>

\* ---------------------------------------------------------- create_project
\* lines 308-313: verify the token, read the user record, check the balance
create_project_get_user(w, E) ==
    /\ Accept(w)
    /\ next_project_id <= MaxProjects
    /\ \E uid \in Users, ok \in E.store_ok :
        /\ req' = [req EXCEPT ![w] = [NoReq EXCEPT !.op = "create_project", !.uid = uid]]
        /\ IF ~ok
           THEN /\ loc' = [loc EXCEPT ![w] = [NoLoc EXCEPT !.error = "StoreError"]]
                /\ Finish(w, 500)
           ELSE IF ~users[uid].present \/ users[uid].credits < 1
           THEN /\ loc' = [loc EXCEPT ![w] = NoLoc]
                /\ Finish(w, 402)
           ELSE /\ loc' = [loc EXCEPT ![w] = [NoLoc EXCEPT !.user_credits = users[uid].credits]]
                /\ Goto(w, "cp_set")
    /\ UNCHANGED <<store, ids>>

\* project_data of lines 320-328
project_data(briefing_text, context_data, detected_use_case) ==
    [EmptyNode EXCEPT
        !.title = Get(context_data.short_description, NewProjectTitle),
        !.detectedUseCase = detected_use_case,
        !.originalBriefingText = briefing_text,
        !.key_points = context_data.key_points,
        !.short_description = context_data.short_description]

\* lines 315-329: text extraction, context extraction, classification, the
\* construction of project_data, and project_ref.set under a fresh uuid
create_project_set(w, E) ==
    /\ pc[w] = "cp_set"
    /\ UNCHANGED calls
    /\ next_project_id <= MaxProjects
    /\ \E input \in E.inputs, text \in E.texts, outcome \in E.context_outcomes,
          classifier_ok \in E.classifier_ok, response_text \in E.responses,
          ok \in E.store_ok :
        \E parsed \in ParsedContexts(outcome, E.context_fields) :
          LET context_data == summarize_and_extract_context(text, outcome, parsed)
              detected == detect_use_case_with_gemini(classifier_ok, response_text)
              Fail(status, error) ==
                  /\ loc' = [loc EXCEPT ![w].error = error,
                                        ![w].classifier_failed =
                                            (input \in {"text", "pdf"} /\ ~classifier_ok)]
                  /\ Finish(w, status)
                  /\ UNCHANGED <<projects, next_project_id>>
          IN
          IF input \in {"bad_pdf", "other_file", "none"} THEN Fail(400, "ValueError")
          ELSE IF detected.raised THEN Fail(500, "ModelError in classifier")
          ELSE IF ~context_data.is_dict THEN Fail(500, "AttributeError")
          ELSE IF ~ok THEN Fail(500, "StoreError")
          ELSE /\ projects' = [projects EXCEPT ![req[w].uid][next_project_id] =
                                   project_data(text, context_data, detected.value)]
               /\ next_project_id' = next_project_id + 1
               /\ loc' = [loc EXCEPT ![w].project_id = next_project_id,
                                     ![w].context_outcome = outcome,
                                     ![w].parsed_context = parsed,
                                     ![w].response_text = response_text,
                                     ![w].classifier_failed = ~classifier_ok,
                                     ![w].project_written = TRUE]
               /\ Goto(w, "cp_debit")
    /\ UNCHANGED <<users, credit_requests, next_session_id, next_error_id, next_request_id, req>>

\* the debit is taken from the balance the store holds at the time of the
\* write, not from the balance read before the project was built
create_project_debit_from_store(w, E) ==
    /\ pc[w] = "cp_debit"
    /\ UNCHANGED calls
    /\ \E ok \in E.store_ok :
        IF ok
        THEN /\ users' = [users EXCEPT ![req[w].uid].credits = @ - ProjectCost]
             /\ loc' = [loc EXCEPT ![w].debited = TRUE, ![w].response_text = <<>>,
                                   ![w].context_outcome = "none",
                                   ![w].parsed_context = NotADict]
             /\ Finish(w, 201)
        ELSE /\ UNCHANGED users
             /\ loc' = [loc EXCEPT ![w].error = "StoreError", ![w].response_text = <<>>,
                                   ![w].context_outcome = "none",
                                   ![w].parsed_context = NotADict]
             /\ Finish(w, 500)
    /\ UNCHANGED <<projects, credit_requests, ids, req>>

\* line 330: user_ref.update({'credits': user_data.get('credits', 0) - 1})
create_project_debit(w, E) ==
    /\ pc[w] = "cp_debit"
    /\ UNCHANGED calls
    /\ \E ok \in E.store_ok :
        IF ok
        THEN /\ users' = [users EXCEPT ![req[w].uid].credits = loc[w].user_credits - ProjectCost,
                                       ![req[w].uid].present = TRUE]
             /\ loc' = [loc EXCEPT ![w].debited = TRUE, ![w].response_text = <<>>,
                                   ![w].context_outcome = "none",
                                   ![w].parsed_context = NotADict]
             /\ Finish(w, 201)
        ELSE /\ UNCHANGED users
             /\ loc' = [loc EXCEPT ![w].error = "StoreError", ![w].response_text = <<>>,
                                   ![w].context_outcome = "none",
                                   ![w].parsed_context = NotADict]
             /\ Finish(w, 500)
    /\ UNCHANGED <<projects, credit_requests, ids, req>>

\* ------------------------------------------- analyze_transcript_with_gemini
\* the record of lines 191-194 (sessionId and createdAt left out)
session_data(duration_seconds, transcript, feedback_data) ==
    [durationSeconds |-> duration_seconds, transcript |-> transcript,
     feedback |-> feedback_data]

\* `if not project_data`: nothing at all is stored under the path
NodeIsEmpty(node) == node = EmptyNode

\* an exception inside the try block: control moves to the except clause
Raise(w, error) ==
    /\ loc' = [loc EXCEPT ![w].error = error]
    /\ Goto(w, "ta_except")

\* end_session_and_analyze, lines 429-434, then lines 163-165 of
\* analyze_transcript_with_gemini: project_ref.get()
analyze_get_project(w, E) ==
    /\ Accept(w)
    /\ next_session_id <= MaxSessions
    /\ next_error_id <= MaxErrorRecords
    /\ \E uid \in Users, project_id \in 0..(next_project_id - 1),
          transcript \in E.transcripts, duration_seconds \in E.durations,
          body_ok \in BOOLEAN, ok \in E.store_ok :
        LET r == [NoReq EXCEPT !.op = "end_session_and_analyze", !.uid = uid,
                               !.project_id = project_id, !.transcript = transcript,
                               !.duration_seconds = duration_seconds]
            l == [NoLoc EXCEPT !.retry = (pc[w] = "done" /\ req[w] = r /\ resp[w].status = 200)]
        IN
        IF ~body_ok
        THEN /\ req' = [req EXCEPT ![w] = [NoReq EXCEPT !.op = "end_session_and_analyze",
                                                        !.uid = uid]]
             /\ loc' = [loc EXCEPT ![w] = NoLoc]
             /\ Finish(w, 400)
        ELSE /\ req' = [req EXCEPT ![w] = r]
             /\ IF ~ok
                THEN /\ loc' = [loc EXCEPT ![w] = [l EXCEPT !.error = "StoreError"]]
                     /\ Goto(w, "ta_except")
                ELSE IF NodeIsEmpty(projects[uid][project_id])
                THEN /\ loc' = [loc EXCEPT ![w] = [l EXCEPT !.error = "ValueError: Project not found"]]
                     /\ Goto(w, "ta_except")
                ELSE /\ loc' = [loc EXCEPT ![w] = l]
                     /\ Goto(w, "ta_set_session")
    /\ UNCHANGED <<store, ids>>

\* the session is written under one fixed id instead of a fresh uuid
analyze_set_session_fixed_id(w, E) ==
    /\ pc[w] = "ta_set_session"
    /\ UNCHANGED calls
    /\ next_session_id <= MaxSessions
    /\ \E outcome \in E.scoring_outcomes, parsed \in E.feedbacks, ok \in E.store_ok :
        LET feedback_data == parse_feedback(outcome, parsed) IN
        IF feedback_data.raised # "none"
        THEN /\ loc' = [loc EXCEPT ![w].error = feedback_data.raised,
                                   ![w].scoring_outcome = outcome]
             /\ Goto(w, "ta_except")
             /\ UNCHANGED <<projects, next_session_id>>
        ELSE IF ~ok
        THEN /\ loc' = [loc EXCEPT ![w].error = "StoreError", ![w].scoring_outcome = outcome]
             /\ Goto(w, "ta_except")
             /\ UNCHANGED <<projects, next_session_id>>
        ELSE /\ projects' = [projects EXCEPT
                   ![req[w].uid][req[w].project_id].practiceSessions =
                       Put(@, 1,
                           session_data(req[w].duration_seconds, req[w].transcript,
                                        feedback_data.value))]
             /\ next_session_id' = next_session_id + 1
             /\ loc' = [loc EXCEPT ![w].session_id = 1,
                                   ![w].feedback = feedback_data.value,
                                   ![w].scoring_outcome = outcome,
                                   ![w].session_written = TRUE]
             /\ Goto(w, "ta_get_user")
    /\ UNCHANGED <<users, credit_requests, next_project_id, next_error_id, next_request_id, req>>

\* lines 186-195: the scoring call, json.loads, and session_ref.set under a
\* fresh uuid
analyze_set_session(w, E) ==
    /\ pc[w] = "ta_set_session"
    /\ UNCHANGED calls
    /\ next_session_id <= MaxSessions
    /\ \E outcome \in E.scoring_outcomes, parsed \in E.feedbacks, ok \in E.store_ok :
        LET feedback_data == parse_feedback(outcome, parsed) IN
        IF feedback_data.raised # "none"
        THEN /\ loc' = [loc EXCEPT ![w].error = feedback_data.raised,
                                   ![w].scoring_outcome = outcome]
             /\ Goto(w, "ta_except")
             /\ UNCHANGED <<projects, next_session_id>>
        ELSE IF ~ok
        THEN /\ loc' = [loc EXCEPT ![w].error = "StoreError", ![w].scoring_outcome = outcome]
             /\ Goto(w, "ta_except")
             /\ UNCHANGED <<projects, next_session_id>>
        ELSE /\ projects' = [projects EXCEPT
                   ![req[w].uid][req[w].project_id].practiceSessions =
                       Put(@, next_session_id,
                           session_data(req[w].duration_seconds, req[w].transcript,
                                        feedback_data.value))]
             /\ next_session_id' = next_session_id + 1
             /\ loc' = [loc EXCEPT ![w].session_id = next_session_id,
                                   ![w].feedback = feedback_data.value,
                                   ![w].scoring_outcome = outcome,
                                   ![w].session_written = TRUE]
             /\ Goto(w, "ta_get_user")
    /\ UNCHANGED <<users, credit_requests, next_project_id, next_error_id, next_request_id, req>>

\* lines 197-199: user_ref.get(), then user_data.get('credits', 0)
analyze_get_user(w, E) ==
    /\ pc[w] = "ta_get_user"
    /\ UNCHANGED calls
    /\ \E ok \in E.store_ok :
        IF ~ok THEN Raise(w, "StoreError")
        ELSE IF ~users[req[w].uid].present THEN Raise(w, "AttributeError")
        ELSE /\ loc' = [loc EXCEPT ![w].user_credits = users[req[w].uid].credits]
             /\ Goto(w, "ta_debit")
    /\ UNCHANGED <<store, ids, req>>

\* the cost is taken from the balance the store holds at the time of the
\* write, not from the balance read at line 198
analyze_debit_from_store(w, E) ==
    /\ pc[w] = "ta_debit"
    /\ UNCHANGED calls
    /\ \E ok \in E.store_ok :
        LET cost == cost_of(req[w].duration_seconds)
            new_credits == Max0(users[req[w].uid].credits - cost)
        IN
        IF ~ok THEN Raise(w, "StoreError") /\ UNCHANGED users
        ELSE /\ users' = [users EXCEPT ![req[w].uid].credits = new_credits,
                                       ![req[w].uid].present = TRUE]
             /\ loc' = [loc EXCEPT ![w].debited = TRUE]
             /\ pc' = [pc EXCEPT ![w] = "done"]
             /\ resp' = [resp EXCEPT ![w] = [status |-> 200, cost |-> cost,
                                             remaining |-> new_credits]]
    /\ UNCHANGED <<projects, credit_requests, ids, req>>

\* lines 200-204: the cost, the clamp, user_ref.update, and the return value,
\* which end_session_and_analyze turns into the 200 response
analyze_debit(w, E) ==
    /\ pc[w] = "ta_debit"
    /\ UNCHANGED calls
    /\ \E ok \in E.store_ok :
        LET cost == cost_of(req[w].duration_seconds)
            new_credits == Max0(loc[w].user_credits - cost)
        IN
        IF ~ok THEN Raise(w, "StoreError") /\ UNCHANGED users
        ELSE /\ users' = [users EXCEPT ![req[w].uid].credits = new_credits,
                                       ![req[w].uid].present = TRUE]
             /\ loc' = [loc EXCEPT ![w].debited = TRUE]
             /\ pc' = [pc EXCEPT ![w] = "done"]
             /\ resp' = [resp EXCEPT ![w] = [status |-> 200, cost |-> cost,
                                             remaining |-> new_credits]]
    /\ UNCHANGED <<projects, credit_requests, ids, req>>

\* the record pushed by line 208
error_record(error, transcript) == [error |-> error, transcript |-> transcript]

\* lines 205-209: the diagnostic write and the re-raise; the exception that
\* leaves the function is the one of the write when the write fails.
\* end_session_and_analyze (lines 442-444) answers 500.
analyze_except(w, E) ==
    /\ pc[w] = "ta_except"
    /\ UNCHANGED calls
    /\ next_error_id <= MaxErrorRecords
    /\ \E ok \in E.store_ok :
        IF ok
        THEN /\ projects' = [projects EXCEPT
                   ![req[w].uid][req[w].project_id].sessions =
                       Put(@, next_error_id, error_record(loc[w].error, req[w].transcript))]
             /\ next_error_id' = next_error_id + 1
             /\ loc' = [loc EXCEPT ![w].raised = loc[w].error, ![w].error_written = TRUE]
             /\ Finish(w, 500)
        ELSE /\ UNCHANGED <<projects, next_error_id>>
             /\ loc' = [loc EXCEPT ![w].raised = "StoreError in diagnostic write"]
             /\ Finish(w, 500)
    /\ UNCHANGED <<users, credit_requests, next_project_id, next_session_id, next_request_id, req>>

\* ------------------------------------------------------------ the ledger
\* verify_admin, lines 72-78, for a caller whose token is valid
is_admin(uid) == users[uid].present /\ users[uid].is_admin

\* request_credits, lines 464-478
request_credits(w, E) ==
    /\ Accept(w)
    /\ next_request_id <= MaxRequests
    /\ \E uid \in Users, requested \in E.requested_credits,
          body_ok \in BOOLEAN, ok \in E.store_ok :
        /\ req' = [req EXCEPT ![w] = [NoReq EXCEPT !.op = "request_credits", !.uid = uid]]
        /\ IF ~body_ok
           THEN /\ loc' = [loc EXCEPT ![w] = NoLoc]
                /\ Finish(w, 400)
                /\ UNCHANGED <<credit_requests, next_request_id>>
           ELSE IF ~ok
           THEN /\ loc' = [loc EXCEPT ![w] = [NoLoc EXCEPT !.error = "StoreError"]]
                /\ Finish(w, 500)
                /\ UNCHANGED <<credit_requests, next_request_id>>
           ELSE /\ credit_requests' = Put(credit_requests, next_request_id,
                        [userId |-> uid, requested_credits |-> requested,
                         status |-> "pending", processedBy |-> "none"])
                /\ next_request_id' = next_request_id + 1
                /\ loc' = [loc EXCEPT ![w] = NoLoc]
                /\ Finish(w, 200)
    /\ UNCHANGED <<users, projects, next_project_id, next_session_id, next_error_id>>

\* admin_update_credits, lines 512-517: verify_admin, the body, user_ref.get()
admin_update_credits_get_user(w, E) ==
    /\ Accept(w)
    /\ \E uid \in Uids, target \in Users, add_credits \in E.add_credits,
          body_ok \in BOOLEAN, ok \in E.store_ok :
        /\ req' = [req EXCEPT ![w] = [NoReq EXCEPT !.op = "admin_update_credits", !.uid = uid,
                                                   !.target = target,
                                                   !.add_credits = add_credits]]
        /\ IF ~ok
           THEN /\ loc' = [loc EXCEPT ![w] = [NoLoc EXCEPT !.error = "StoreError"]]
                /\ Finish(w, 500)
           ELSE IF ~is_admin(uid)
           THEN /\ loc' = [loc EXCEPT ![w] = [NoLoc EXCEPT !.error = "PermissionError"]]
                /\ Finish(w, 403)
           ELSE IF ~body_ok
           THEN /\ loc' = [loc EXCEPT ![w] = NoLoc]
                /\ Finish(w, 400)
           ELSE IF ~users[target].present
           THEN /\ loc' = [loc EXCEPT ![w] = NoLoc]
                /\ Finish(w, 404)
           ELSE /\ loc' = [loc EXCEPT ![w] = [NoLoc EXCEPT !.user_credits = users[target].credits]]
                /\ Goto(w, "au_update")
    /\ UNCHANGED <<store, ids>>

\* lines 502 and 518: new_total = user_data.get('credits', 0) + int(delta)
new_total(current_credits, delta) == current_credits + delta

\* lines 518-520: int(add_credits) and user_ref.update
admin_update_credits_update(w, E) ==
    /\ pc[w] = "au_update"
    /\ UNCHANGED calls
    /\ \E ok \in E.store_ok :
        LET total == new_total(loc[w].user_credits, req[w].add_credits.n) IN
        IF ~req[w].add_credits.is_int
        THEN /\ loc' = [loc EXCEPT ![w].error = "ValueError"]
             /\ Finish(w, 500)
             /\ UNCHANGED users
        ELSE IF ~ok
        THEN /\ loc' = [loc EXCEPT ![w].error = "StoreError"]
             /\ Finish(w, 500)
             /\ UNCHANGED users
        ELSE /\ total \in -MaxOverdraft..MaxCredits
             /\ users' = [users EXCEPT ![req[w].target].credits = total,
                                       ![req[w].target].present = TRUE]
             /\ loc' = [loc EXCEPT ![w].credited = TRUE]
             /\ Finish(w, 200)
    /\ UNCHANGED <<projects, credit_requests, ids, req>>

\* process_credit_request, lines 492-497: verify_admin, req_ref.get(), the
\* decision
process_credit_request_get_request(w, E) ==
    /\ Accept(w)
    /\ \E uid \in Uids, request_id \in 1..MaxRequests,
          decision \in {"approved", "declined", "maybe"}, ok \in E.store_ok :
        /\ req' = [req EXCEPT ![w] = [NoReq EXCEPT !.op = "process_credit_request",
                                                   !.uid = uid, !.request_id = request_id,
                                                   !.decision = decision]]
        /\ IF ~ok
           THEN /\ loc' = [loc EXCEPT ![w] = [NoLoc EXCEPT !.error = "StoreError"]]
                /\ Finish(w, 500)
           ELSE IF ~is_admin(uid)
           THEN /\ loc' = [loc EXCEPT ![w] = [NoLoc EXCEPT !.error = "PermissionError"]]
                /\ Finish(w, 403)
           ELSE IF request_id \notin DOMAIN credit_requests
           THEN /\ loc' = [loc EXCEPT ![w] = NoLoc]
                /\ Finish(w, 404)
           ELSE IF decision \notin {"approved", "declined"}
           THEN /\ loc' = [loc EXCEPT ![w] = NoLoc]
                /\ Finish(w, 400)
           ELSE /\ loc' = [loc EXCEPT ![w] = [NoLoc EXCEPT
                               !.req_data = credit_requests[request_id]]]
                /\ Goto(w, IF decision = "approved" THEN "pcr_get_user"
                                                    ELSE "pcr_update_request")
    /\ UNCHANGED <<store, ids>>

\* lines 499-501: user_ref.get() of the requesting user
process_credit_request_get_user(w, E) ==
    /\ pc[w] = "pcr_get_user"
    /\ UNCHANGED calls
    /\ \E ok \in E.store_ok :
        IF ~ok
        THEN /\ loc' = [loc EXCEPT ![w].error = "StoreError"]
             /\ Finish(w, 500)
        ELSE IF ~users[loc[w].req_data.userId].present
        THEN UNCHANGED loc /\ Goto(w, "pcr_update_request")
        ELSE /\ loc' = [loc EXCEPT ![w].user_credits = users[loc[w].req_data.userId].credits]
             /\ Goto(w, "pcr_update_user")
    /\ UNCHANGED <<store, ids, req>>

\* lines 502-503: int(requested_credits) and user_ref.update
process_credit_request_update_user(w, E) ==
    /\ pc[w] = "pcr_update_user"
    /\ UNCHANGED calls
    /\ \E ok \in E.store_ok :
        LET requested == loc[w].req_data.requested_credits
            total == new_total(loc[w].user_credits, requested.n)
        IN
        IF ~requested.is_int
        THEN /\ loc' = [loc EXCEPT ![w].error = "ValueError"]
             /\ Finish(w, 500)
             /\ UNCHANGED users
        ELSE IF ~ok
        THEN /\ loc' = [loc EXCEPT ![w].error = "StoreError"]
             /\ Finish(w, 500)
             /\ UNCHANGED users
        ELSE /\ total \in -MaxOverdraft..MaxCredits
             /\ users' = [users EXCEPT ![loc[w].req_data.userId].credits = total,
                                       ![loc[w].req_data.userId].present = TRUE]
             /\ loc' = [loc EXCEPT ![w].credited = TRUE]
             /\ Goto(w, "pcr_update_request")
    /\ UNCHANGED <<projects, credit_requests, ids, req>>

\* line 504: req_ref.update of status and processedBy
process_credit_request_update_request(w, E) ==
    /\ pc[w] = "pcr_update_request"
    /\ UNCHANGED calls
    /\ \E ok \in E.store_ok :
        IF ~ok
        THEN /\ loc' = [loc EXCEPT ![w].error = "StoreError"]
             /\ Finish(w, 500)
             /\ UNCHANGED credit_requests
        ELSE /\ credit_requests' = [credit_requests EXCEPT
                    ![req[w].request_id].status = req[w].decision,
                    ![req[w].request_id].processedBy = req[w].uid]
             /\ UNCHANGED loc
             /\ Finish(w, 200)
    /\ UNCHANGED <<users, projects, ids, req>>

\* ------------------------------------------------------------ social_signin
\* lines 273-278: verify the token, read the user record, and answer 200
\* with the record when there is one
social_signin_get_user(w, E) ==
    /\ Accept(w)
    /\ \E uid \in Users, ok \in E.store_ok :
        /\ req' = [req EXCEPT ![w] = [NoReq EXCEPT !.op = "social_signin", !.uid = uid]]
        /\ IF ~ok
           THEN /\ loc' = [loc EXCEPT ![w] = [NoLoc EXCEPT !.error = "StoreError"]]
                /\ Finish(w, 500)
           ELSE IF users[uid].present
           THEN /\ loc' = [loc EXCEPT ![w] = [NoLoc EXCEPT !.user_found = TRUE,
                                                           !.user_credits = users[uid].credits]]
                /\ Finish(w, 200)
           ELSE /\ loc' = [loc EXCEPT ![w] = NoLoc]
                /\ Goto(w, "ss_set")
    /\ UNCHANGED <<store, ids>>

\* lines 281-292: auth.get_user, the new profile with credits 30, and
\* user_ref.set
social_signin_set(w, E) ==
    /\ pc[w] = "ss_set"
    /\ UNCHANGED calls
    /\ \E ok \in E.store_ok :
        IF ok
        THEN /\ users' = [users EXCEPT ![req[w].uid] = NewUser]
             /\ loc' = [loc EXCEPT ![w].credited = TRUE]
             /\ Finish(w, 201)
        ELSE /\ UNCHANGED users
             /\ loc' = [loc EXCEPT ![w].error = "StoreError"]
             /\ Finish(w, 500)
    /\ UNCHANGED <<projects, credit_requests, ids, req>>

\* ------------------------------------------------------------ delete_project
\* lines 381-385: project_ref.get() and the not-found answer
delete_project_get(w, E) ==
    /\ Accept(w)
    /\ \E uid \in Users, project_id \in 0..(next_project_id - 1), ok \in E.store_ok :
        /\ req' = [req EXCEPT ![w] = [NoReq EXCEPT !.op = "delete_project", !.uid = uid,
                                                   !.project_id = project_id]]
        /\ IF ~ok
           THEN /\ loc' = [loc EXCEPT ![w] = [NoLoc EXCEPT !.error = "StoreError"]]
                /\ Finish(w, 500)
           ELSE IF NodeIsEmpty(projects[uid][project_id])
           THEN /\ loc' = [loc EXCEPT ![w] = NoLoc]
                /\ Finish(w, 404)
           ELSE /\ loc' = [loc EXCEPT ![w] = NoLoc]
                /\ Goto(w, "dp_delete")
    /\ UNCHANGED <<store, ids>>

\* lines 386-391: project_ref.delete() removes the node and everything under
\* it
delete_project_delete(w, E) ==
    /\ pc[w] = "dp_delete"
    /\ UNCHANGED calls
    /\ \E ok \in E.store_ok :
        IF ok
        THEN /\ projects' = [projects EXCEPT ![req[w].uid][req[w].project_id] = EmptyNode]
             /\ UNCHANGED loc
             /\ Finish(w, 200)
        ELSE /\ UNCHANGED projects
             /\ loc' = [loc EXCEPT ![w].error = "StoreError"]
             /\ Finish(w, 500)
    /\ UNCHANGED <<users, credit_requests, ids, req>>

\* --------------------------------------------------- generate_agent_briefing
General == <<"General">>
NoContextExtracted == Text("No specific context was extracted.", 34)

\* use_case.split(' ')[0]
FirstWord(use_case) == IF use_case = <<>> \/ use_case[1] = " " THEN "" ELSE use_case[1]

\* lines 216-218: the base briefing, from the use case (General when the node
\* has none) and the key points (a fixed sentence when the node has none)
base_briefing(node) ==
    LET use_case == IF node.detectedUseCase = <<>> THEN General
                    ELSE node.detectedUseCase
    IN  [NoBriefing EXCEPT !.use_case = use_case, !.persona = FirstWord(use_case),
                           !.key_points = Get(node.key_points, NoContextExtracted)]

\* a failed directive call is reported in the briefing
directive_briefing_with_note(base, call_ok, response_text) ==
    IF ~call_ok THEN [base EXCEPT !.tail = "feedback_unavailable"]
    ELSE [base EXCEPT !.tail = "directive", !.directive = Strip(response_text)]

\* lines 239-245: the directive call, response.text.strip(), and the except
\* clause that returns the base briefing
directive_briefing(base, call_ok, response_text) ==
    IF ~call_ok THEN base
    ELSE [base EXCEPT !.tail = "directive", !.directive = Strip(response_text)]

\* the directive call is made whatever the project's sessions are
generate_agent_briefing_always_calls(node, call_ok, response_text) ==
    [briefing |-> directive_briefing(base_briefing(node), call_ok, response_text),
     model_calls |-> 1]

\* lines 216-245 for a node that exists. A session's feedback is "scores" (a
\* non-empty object), "empty_object", or "array" (a non-empty JSON value that
\* is no object, on which feedback.get raises inside the try block).
generate_agent_briefing(node, call_ok, response_text) ==
    LET base == base_briefing(node)
        sessions == node.practiceSessions
        feedbacks == {sessions[k].feedback : k \in DOMAIN sessions}
    IN
    IF sessions = <<>>
    THEN [briefing |-> [base EXCEPT !.tail = "first_session"], model_calls |-> 0]
    ELSE IF "array" \in feedbacks
    THEN [briefing |-> base, model_calls |-> 0]
    ELSE IF "scores" \notin feedbacks
    THEN [briefing |-> [base EXCEPT !.tail = "feedback_unavailable"], model_calls |-> 0]
    ELSE [briefing |-> directive_briefing(base, call_ok, response_text),
          model_calls |-> 1]

\* get_agent_briefing, lines 394-403, with generate_agent_briefing, lines
\* 213-215: project_ref.get() and the not-found answer
get_agent_briefing(w, E) ==
    /\ Accept(w)
    /\ \E uid \in Users, project_id \in 0..(next_project_id - 1), ok \in E.store_ok,
          call_ok \in E.directive_ok, response_text \in E.directives :
        /\ req' = [req EXCEPT ![w] = [NoReq EXCEPT !.op = "get_agent_briefing", !.uid = uid,
                                                   !.project_id = project_id]]
        /\ IF ~ok
           THEN /\ loc' = [loc EXCEPT ![w] = [NoLoc EXCEPT !.error = "StoreError"]]
                /\ Finish(w, 500)
           ELSE IF NodeIsEmpty(projects[uid][project_id])
           THEN /\ loc' = [loc EXCEPT ![w] = [NoLoc EXCEPT !.error = "ValueError: Project not found"]]
                /\ Finish(w, 404)
           ELSE LET r == generate_agent_briefing(projects[uid][project_id], call_ok,
                                                 response_text)
                IN  /\ loc' = [loc EXCEPT ![w] =
                           [NoLoc EXCEPT !.briefing = r.briefing,
                                         !.model_calls = r.model_calls,
                                         !.response_text =
                                             IF r.model_calls = 1 /\ call_ok
                                             THEN response_text ELSE <<>>,
                                         !.classifier_failed = FALSE,
                                         !.error = IF r.model_calls = 1 /\ ~call_ok
                                                   THEN "ModelError in directive"
                                                   ELSE "none"]]
                    /\ Finish(w, 200)
    /\ UNCHANGED <<store, ids>>

\* ------------------------------------------------------------- get_agent_url
\* any credit at all admits
admitted_with_any_credit(user_data) == user_data.present /\ user_data.credits >= 1

\* line 410: the admission test on the record that was read
admitted(user_data) == user_data.present /\ user_data.credits >= VoiceMinimum

\* get_agent_url, lines 405-425: user record, admission test, signed-URL
\* request
get_agent_url(w, E) ==
    /\ Accept(w)
    /\ \E uid \in Users, ok \in E.store_ok, configured \in E.agent_configured,
          provider_ok \in E.provider_ok :
        /\ req' = [req EXCEPT ![w] = [NoReq EXCEPT !.op = "get_agent_url", !.uid = uid]]
        /\ LET l == [NoLoc EXCEPT !.user_found = users[uid].present,
                                  !.user_credits = users[uid].credits]
           IN
           IF ~ok
           THEN /\ loc' = [loc EXCEPT ![w] = [NoLoc EXCEPT !.error = "StoreError"]]
                /\ Finish(w, 500)
           ELSE IF ~admitted(users[uid])
           THEN /\ loc' = [loc EXCEPT ![w] = l]
                /\ Finish(w, 402)
           ELSE IF ~configured
           THEN /\ loc' = [loc EXCEPT ![w] = [l EXCEPT !.error = "ValueError"]]
                /\ Finish(w, 500)
           ELSE IF ~provider_ok
           THEN /\ loc' = [loc EXCEPT ![w] = [l EXCEPT !.error = "RequestException",
                                                       !.url_requested = TRUE]]
                /\ Finish(w, 502)
           ELSE /\ loc' = [loc EXCEPT ![w] = [l EXCEPT !.url_requested = TRUE]]
                /\ Finish(w, 200)
    /\ UNCHANGED <<store, ids>>

\* ------------------------------------------------- project reads and rename
\* list_projects, lines 339-347: one read of projects/{uid}
list_projects(w, E) ==
    /\ Accept(w)
    /\ \E uid \in Users, ok \in E.store_ok :
        /\ req' = [req EXCEPT ![w] = [NoReq EXCEPT !.op = "list_projects", !.uid = uid]]
        /\ IF ok
           THEN /\ loc' = [loc EXCEPT ![w] = NoLoc]
                /\ Finish(w, 200)
           ELSE /\ loc' = [loc EXCEPT ![w] = [NoLoc EXCEPT !.error = "StoreError"]]
                /\ Finish(w, 500)
    /\ UNCHANGED <<store, ids>>

\* get_project, lines 350-359: one read of the node and the not-found answer
get_project(w, E) ==
    /\ Accept(w)
    /\ \E uid \in Users, project_id \in 0..(next_project_id - 1), ok \in E.store_ok :
        /\ req' = [req EXCEPT ![w] = [NoReq EXCEPT !.op = "get_project", !.uid = uid,
                                                   !.project_id = project_id]]
        /\ IF ~ok
           THEN /\ loc' = [loc EXCEPT ![w] = [NoLoc EXCEPT !.error = "StoreError"]]
                /\ Finish(w, 500)
           ELSE /\ loc' = [loc EXCEPT ![w] = NoLoc]
                /\ Finish(w, IF NodeIsEmpty(projects[uid][project_id]) THEN 404 ELSE 200)
    /\ UNCHANGED <<store, ids>>

\* get_session_details, lines 447-458: one read of practiceSessions/{id}
get_session_details(w, E) ==
    /\ Accept(w)
    /\ \E uid \in Users, project_id \in 0..(next_project_id - 1),
          session_id \in 1..MaxSessions, ok \in E.store_ok :
        /\ req' = [req EXCEPT ![w] = [NoReq EXCEPT !.op = "get_session_details", !.uid = uid,
                                                   !.project_id = project_id]]
        /\ IF ~ok
           THEN /\ loc' = [loc EXCEPT ![w] = [NoLoc EXCEPT !.error = "StoreError"]]
                /\ Finish(w, 500)
           ELSE /\ loc' = [loc EXCEPT ![w] = [NoLoc EXCEPT !.session_id = session_id]]
                /\ Finish(w, IF session_id \in DOMAIN projects[uid][project_id].practiceSessions
                             THEN 200 ELSE 404)
    /\ UNCHANGED <<store, ids>>

\* update_project, lines 362-371: the title check, project_ref.get() and the
\* not-found answer
update_project_get(w, E) ==
    /\ Accept(w)
    /\ \E uid \in Users, project_id \in 0..(next_project_id - 1), new_title \in E.titles,
          body_ok \in BOOLEAN, ok \in E.store_ok :
        /\ req' = [req EXCEPT ![w] = [NoReq EXCEPT !.op = "update_project", !.uid = uid,
                                                   !.project_id = project_id,
                                                   !.title = IF body_ok THEN new_title
                                                              ELSE NoText]]
        /\ IF ~body_ok
           THEN /\ loc' = [loc EXCEPT ![w] = NoLoc]
                /\ Finish(w, 400)
           ELSE IF ~ok
           THEN /\ loc' = [loc EXCEPT ![w] = [NoLoc EXCEPT !.error = "StoreError"]]
                /\ Finish(w, 500)
           ELSE IF NodeIsEmpty(projects[uid][project_id])
           THEN /\ loc' = [loc EXCEPT ![w] = NoLoc]
                /\ Finish(w, 404)
           ELSE /\ loc' = [loc EXCEPT ![w] = NoLoc]
                /\ Goto(w, "up_update")
    /\ UNCHANGED <<store, ids>>

\* lines 372-377: project_ref.update({'title': ...}) writes the title child
\* of the node, whatever the node holds by then
update_project_update(w, E) ==
    /\ pc[w] = "up_update"
    /\ UNCHANGED calls
    /\ \E ok \in E.store_ok :
        IF ok
        THEN /\ projects' = [projects EXCEPT ![req[w].uid][req[w].project_id].title =
                                 req[w].title]
             /\ loc' = [loc EXCEPT ![w].project_written = TRUE]
             /\ Finish(w, 200)
        ELSE /\ UNCHANGED projects
             /\ loc' = [loc EXCEPT ![w].error = "StoreError"]
             /\ Finish(w, 500)
    /\ UNCHANGED <<users, credit_requests, ids, req>>

Next(E) ==
    \E w \in E.workers :
        \/ signup(w, E)
        \/ create_project_get_user(w, E)
        \/ create_project_set(w, E)
        \/ create_project_debit(w, E)
        \/ analyze_get_project(w, E)
        \/ analyze_set_session(w, E)
        \/ analyze_get_user(w, E)
        \/ analyze_debit(w, E)
        \/ analyze_except(w, E)
        \/ request_credits(w, E)
        \/ admin_update_credits_get_user(w, E)
        \/ admin_update_credits_update(w, E)
        \/ process_credit_request_get_request(w, E)
        \/ process_credit_request_get_user(w, E)
        \/ process_credit_request_update_user(w, E)
        \/ process_credit_request_update_request(w, E)
        \/ social_signin_get_user(w, E)
        \/ social_signin_set(w, E)
        \/ delete_project_get(w, E)
        \/ delete_project_delete(w, E)
        \/ get_agent_briefing(w, E)
        \/ get_agent_url(w, E)
        \/ list_projects(w, E)
        \/ get_project(w, E)
        \/ get_session_details(w, E)
        \/ update_project_get(w, E)
        \/ update_project_update(w, E)

Spec == Init /\ [][Next(FaultEnv)]_vars

SpecLedger == Init /\ [][Next(LedgerEnv)]_vars

SpecPipeline == Init /\ [][Next(PipelineEnv)]_vars

SpecClassifier == Init /\ [][Next(ClassifierEnv)]_vars

SpecBriefing == Init /\ [][Next(BriefingEnv)]_vars

SpecConcurrent == Init /\ [][Next(ConcurrentEnv)]_vars

\* ==================================================================== claims
AnalysisDone(w) == pc[w] = "done" /\ req[w].op = "end_session_and_analyze"
CreateDone(w) == pc[w] = "done" /\ req[w].op = "create_project"

\* the least whole number of minutes that covers d seconds
MinutesCovering(d) == CHOOSE k \in -3..3 : 60 * (k - 1) < d /\ d <= 60 * k

\* C1: a successful transcript analysis handled with no other request in
\* flight charges ceil(d/60)*3 for the accepted duration d (3 for d=1 and
\* d=60, 6 for d=61, 9 for d=125), and the balance it writes to the user
\* record, which is the remaining balance it returns, is max(0, b - cost) for
\* the balance b the record held before the debit.
C1_AnalysisCostAndClamp ==
    [][\A w \in Workers :
        (pc[w] = "ta_debit" /\ pc'[w] = "done") =>
            LET d == req[w].duration_seconds
                b == users[req[w].uid].credits
                cost == resp'[w].cost
                after == users'[req[w].uid].credits
            IN  /\ resp'[w].status = 200
                /\ cost = 3 * MinutesCovering(d)
                /\ (d = 1 => cost = 3) /\ (d = 60 => cost = 3)
                /\ (d = 61 => cost = 6) /\ (d = 125 => cost = 9)
                /\ after = (IF b - cost > 0 THEN b - cost ELSE 0)
                /\ resp'[w].remaining = after]_vars

\* a 61 second session was charged 6 credits against a smaller balance, which
\* was clamped to zero
C1_Witness ==
    \E w \in Workers :
        /\ AnalysisDone(w) /\ resp[w].status = 200
        /\ req[w].duration_seconds = 61 /\ resp[w].cost = 6
        /\ loc[w].user_credits < 6
        /\ resp[w].remaining = 0 /\ users[req[w].uid].credits = 0

\* C2: every user's credits value is a non-negative integer in every
\* reachable state, whatever project creations, analyses, admin credit
\* updates and credit-request decisions were handled.
C2_CreditsNeverNegative ==
    \A u \in Uids : users[u].present => users[u].credits \in Nat

\* C3: a finished create_project request has either written the project and
\* debited the balance, or done neither.
C3_CreateProjectAllOrNothing ==
    \A w \in Workers :
        CreateDone(w) => (loc[w].project_written <=> loc[w].debited)

\* C4: a failed analyze_transcript_with_gemini call has not changed the
\* balance and has left no session record under practiceSessions.
C4_FailedAnalysisLeavesNothing ==
    \A w \in Workers :
        (AnalysisDone(w) /\ resp[w].status = 500) =>
            /\ ~loc[w].debited
            /\ ~loc[w].session_written

\* the diagnostic record of the call of worker w is in the store
ErrorRecordStored(w) ==
    \E k \in DOMAIN projects[req[w].uid][req[w].project_id].sessions :
        LET r == projects[req[w].uid][req[w].project_id].sessions[k]
        IN  r.error = "JSONDecodeError" /\ r.transcript = req[w].transcript

ParseFailed(w) == AnalysisDone(w) /\ loc[w].scoring_outcome = "non_json"

\* C5 as stated: when the scoring response cannot be parsed, the balance is
\* unchanged, no session record is created, a diagnostic record holding the
\* error and the transcript is written under the project, and the parse
\* failure is re-raised to the caller.
C5_ParseFailureAsStated ==
    \A w \in Workers :
        ParseFailed(w) =>
            /\ ~loc[w].debited /\ ~loc[w].session_written
            /\ ErrorRecordStored(w)
            /\ loc[w].raised = "JSONDecodeError"

\* C6: an analysis request that repeats the request the same client made
\* just before, and that had succeeded, does not charge again: the balance it
\* leaves is the balance it found.
C6_RetryNotChargedAgain ==
    \A w \in Workers :
        (AnalysisDone(w) /\ resp[w].status = 200 /\ loc[w].retry) =>
            /\ resp[w].remaining = loc[w].user_credits
            /\ users[req[w].uid].credits = loc[w].user_credits

\* C7: every non-empty node projects/{uid}/{project_id} has a detectedUseCase
\* that is one of the three categories.
C7_StoredUseCaseIsValid ==
    \A u \in Uids, p \in ProjectIds :
        projects[u][p] # EmptyNode =>
            projects[u][p].detectedUseCase \in
                {<<"Job", " ", "Interview">>, <<"Investor", " ", "Pitch">>,
                 <<"Academic", " ", "Presentation">>}

\* the text left when the whitespace at both ends of r is taken away
Trimmed(r) ==
    CHOOSE t \in {SubSeq(r, i, j) : i \in 1..(Len(r) + 1), j \in 0..Len(r)} :
        \E i \in 1..(Len(r) + 1), j \in 0..Len(r) :
            /\ t = SubSeq(r, i, j)
            /\ \A k \in 1..Len(r) : (k < i \/ k > j) => r[k] \in {" ", "\n"}
            /\ t = <<>> \/ (t[1] \notin {" ", "\n"} /\ t[Len(t)] \notin {" ", "\n"})

\* the text left when every quote character of t is taken away
Unquoted(t) ==
    LET f[i \in 0..Len(t)] ==
            IF i = 0 THEN <<>>
            ELSE IF t[i] \in {"'", "\""} THEN f[i - 1] ELSE Append(f[i - 1], t[i])
    IN  f[Len(t)]

ThreeCategories ==
    {<<"Job", " ", "Interview">>, <<"Investor", " ", "Pitch">>,
     <<"Academic", " ", "Presentation">>}

\* C8: the detectedUseCase that create_project stores is the classifier's
\* response, trimmed and with its quote characters removed, when that is
\* exactly one of the three categories, and Job Interview otherwise.
C8_ClassifierDefault ==
    \A w \in Workers :
        pc[w] = "cp_debit" =>
            LET cleaned == Unquoted(Trimmed(loc[w].response_text))
                stored == projects[req[w].uid][loc[w].project_id].detectedUseCase
            IN  /\ cleaned \in ThreeCategories => stored = cleaned
                /\ cleaned \notin ThreeCategories => stored = <<"Job", " ", "Interview">>

\* a quoted category with a space inside the quotes is no category once
\* cleaned, and was stored as Job Interview
C8_Witness ==
    \E w \in Workers :
        /\ pc[w] = "cp_debit"
        /\ loc[w].response_text = <<"\"", " ", "Investor", " ", "Pitch", "\"", " ">>
        /\ projects[req[w].uid][loc[w].project_id].detectedUseCase = <<"Job", " ", "Interview">>

FirstThousand(text) == IF text.len <= 1000 THEN text ELSE [id |-> text.id, len |-> 1000]

ContextFallbackStored(p) ==
    /\ p.short_description = [id |-> "User-provided project document.", len |-> 31]
    /\ p.key_points = FirstThousand(p.originalBriefingText)

\* C9 as stated: on a model call error, on non-JSON output and on a JSON
\* object that misses short_description or key_points, the created project
\* stores the fallback description and the first 1000 characters of the text.
C9_ContextFallbackAsStated ==
    \A w \in Workers :
        (pc[w] = "cp_debit" /\
         (\/ loc[w].context_outcome \in {"call_error", "non_json"}
          \/ /\ loc[w].context_outcome = "object"
             /\ NoText \in {loc[w].parsed_context.short_description,
                            loc[w].parsed_context.key_points})) =>
            ContextFallbackStored(projects[req[w].uid][loc[w].project_id])

\* C9 amended: on a model call error and on non-JSON output the created
\* project stores the fallback description and the first 1000 characters of
\* the input text; a JSON object is taken as the model gave it, so a key it
\* misses is stored as null (and a missing short_description gives the title
\* New Project).
C9_ContextFallback ==
    \A w \in Workers :
        pc[w] = "cp_debit" =>
            LET p == projects[req[w].uid][loc[w].project_id]
                parsed == loc[w].parsed_context
            IN  IF loc[w].context_outcome \in {"call_error", "non_json"}
                THEN ContextFallbackStored(p) /\ p.title = p.short_description
                ELSE /\ p.short_description = parsed.short_description
                     /\ p.key_points = parsed.key_points
                     /\ p.title = IF parsed.short_description = NoText
                                  THEN [id |-> "New Project", len |-> 11]
                                  ELSE parsed.short_description

\* non-JSON output for a text of more than 1000 characters: the stored key
\* points are its first 1000 characters
C9_Witness ==
    \E w \in Workers :
        /\ pc[w] = "cp_debit" /\ loc[w].context_outcome = "non_json"
        /\ projects[req[w].uid][loc[w].project_id].originalBriefingText.len > 1000
        /\ projects[req[w].uid][loc[w].project_id].key_points.len = 1000

\* C10: when the classifier's model call fails, create_project ends there
\* with a 500, no default category is used, and the step changes neither the
\* projects nor any balance.
C10_ClassifierFailureRejects ==
    [][\A w \in Workers :
        (pc[w] = "cp_set" /\ pc'[w] # "cp_set" /\ loc'[w].classifier_failed) =>
            /\ pc'[w] = "done" /\ resp'[w].status = 500
            /\ projects' = projects /\ users' = users
            /\ ~loc'[w].project_written /\ ~loc'[w].debited
            /\ users[req[w].uid].credits = loc[w].user_credits]_vars

\* a create_project request was rejected because the classifier call failed
C10_Witness ==
    \E w \in Workers :
        /\ CreateDone(w) /\ loc[w].classifier_failed /\ resp[w].status = 500
        /\ loc[w].error = "ModelError in classifier"
        /\ users[req[w].uid].credits = loc[w].user_credits

DecisionDone(w) == pc[w] = "done" /\ req[w].op = "process_credit_request"

\* C11: a process_credit_request call that finds the request already approved
\* or declined changes neither the request record nor the balance of the
\* requesting user, so a request credits its user at most once.
C11_DecidedRequestIsTerminal ==
    \A w \in Workers :
        (DecisionDone(w) /\ loc[w].req_data.status \in {"approved", "declined"}) =>
            /\ ~loc[w].credited
            /\ credit_requests[req[w].request_id].status = loc[w].req_data.status
            /\ credit_requests[req[w].request_id].processedBy = loc[w].req_data.processedBy

\* C12: no session is analyzed and stored for a user whose balance is below
\* the analysis cost: a successful analysis found a balance that covers its
\* cost.
C12_AnalysisChecksSufficiency ==
    \A w \in Workers :
        (AnalysisDone(w) /\ resp[w].status = 200) =>
            loc[w].user_credits >= resp[w].cost

\* C16: every successful transcript analysis of a non-negative duration
\* (0 and durations under a minute included) charges at least 3 credits.
C16_MinimumCharge ==
    \A w \in Workers :
        (AnalysisDone(w) /\ resp[w].status = 200 /\ req[w].duration_seconds >= 0) =>
            resp[w].cost >= 3

\* C17: when a transcript analysis fails and the diagnostic write fails too,
\* the error that leaves analyze_transcript_with_gemini is the error of the
\* analysis, not the one of the write.
C17_DiagnosticWriteDoesNotMask ==
    \A w \in Workers :
        (AnalysisDone(w) /\ loc[w].error # "none" /\ ~loc[w].error_written) =>
            loc[w].raised = loc[w].error

BriefingDone(w) == pc[w] = "done" /\ req[w].op = "get_agent_briefing"

\* the node is a project record written by create_project (which always
\* stores a category), not a node that only holds diagnostic records
IsProject(node) == node.detectedUseCase # <<>>

\* C13: transcript analysis and briefing generation for a (uid, project_id)
\* that holds no project written by create_project (never created, or
\* deleted) fail with not-found whatever was handled before, and the analysis
\* stores no session and debits nothing.
C13_MissingProjectIsNotFound ==
    \A w \in Workers :
        LET missing == ~IsProject(projects[req[w].uid][req[w].project_id]) IN
        /\ (AnalysisDone(w) /\ resp[w].status # 400 /\ missing) =>
              /\ resp[w].status = 500
              /\ loc[w].error = "ValueError: Project not found"
              /\ ~loc[w].session_written /\ ~loc[w].debited
        /\ (BriefingDone(w) /\ missing) => resp[w].status = 404

\* the base briefing of a node: its use case (General when it has none), the
\* first word of the use case as the persona, and its key points (a fixed
\* sentence when it has none)
IsBaseOf(b, node) ==
    /\ b.use_case = (IF node.detectedUseCase = <<>> THEN <<"General">>
                     ELSE node.detectedUseCase)
    /\ b.persona = b.use_case[1]
    /\ b.key_points = (IF node.key_points = NoText
                       THEN [id |-> "No specific context was extracted.", len |-> 34]
                       ELSE node.key_points)

\* C14: for a project with no stored practice session, generate_agent_briefing
\* makes no model call and returns the base briefing followed by the
\* first-practice-session note.
C14_FirstSessionBriefingIsFree ==
    \A w \in Workers :
        LET node == projects[req[w].uid][req[w].project_id] IN
        (BriefingDone(w) /\ resp[w].status = 200 /\ node.practiceSessions = <<>>) =>
            /\ loc[w].model_calls = 0
            /\ IsBaseOf(loc[w].briefing, node)
            /\ loc[w].briefing.tail = "first_session"
            /\ loc[w].briefing.directive = <<>>

\* a project created by create_project, with no session, got the first
\* session briefing without a model call
C14_Witness ==
    \E w \in Workers :
        LET node == projects[req[w].uid][req[w].project_id] IN
        /\ BriefingDone(w) /\ resp[w].status = 200
        /\ IsProject(node) /\ node.practiceSessions = <<>>
        /\ loc[w].briefing.tail = "first_session" /\ loc[w].model_calls = 0
        /\ loc[w].briefing.persona = "Investor"

\* every stored session of the node has a feedback object with content
AllSessionsHaveFeedback(node) ==
    /\ node.practiceSessions # <<>>
    /\ \A k \in DOMAIN node.practiceSessions : node.practiceSessions[k].feedback = "scores"

\* C15: for an existing project whose sessions (one or more) each contain
\* feedback, generate_agent_briefing makes exactly one directive call; when
\* the call fails the request still succeeds and returns the base briefing
\* with no directive and no note, and when it succeeds the briefing is the
\* base briefing followed by the directive (the response without the
\* whitespace at its ends).
C15_DirectiveCallIsGuarded ==
    \A w \in Workers :
        LET node == projects[req[w].uid][req[w].project_id] IN
        (BriefingDone(w) /\ resp[w].status # 500 /\ IsProject(node)
            /\ AllSessionsHaveFeedback(node)) =>
            /\ resp[w].status = 200
            /\ loc[w].model_calls = 1
            /\ IsBaseOf(loc[w].briefing, node)
            /\ IF loc[w].error = "ModelError in directive"
               THEN loc[w].briefing.tail = "none" /\ loc[w].briefing.directive = <<>>
               ELSE /\ loc[w].error = "none"
                    /\ loc[w].briefing.tail = "directive"
                    /\ loc[w].briefing.directive = Trimmed(loc[w].response_text)

\* the directive call failed for a project with a scored session, and the
\* request returned the base briefing
C15_Witness ==
    \E w \in Workers :
        LET node == projects[req[w].uid][req[w].project_id] IN
        /\ BriefingDone(w) /\ resp[w].status = 200
        /\ IsProject(node) /\ AllSessionsHaveFeedback(node)
        /\ loc[w].error = "ModelError in directive" /\ loc[w].model_calls = 1
        /\ loc[w].briefing.tail = "none"

\* worker w handled a get_agent_url request in this step
AdmissionStep(w) ==
    /\ Free(w) /\ calls' = calls + 1
    /\ pc'[w] = "done" /\ req'[w].op = "get_agent_url"

\* C19: get_agent_url refuses, without requesting a signed URL, whenever the
\* user's record is missing or holds fewer than 3 credits; it requests a
\* signed URL only for a record with 3 credits or more; and no admission,
\* granted or refused, changes a user record.
C19_AdmissionGate ==
    [][\A w \in Workers :
        AdmissionStep(w) =>
            LET user_data == users[req'[w].uid] IN
            /\ users' = users
            /\ (~user_data.present \/ user_data.credits < 3) =>
                  /\ resp'[w].status = 402
                  /\ ~loc'[w].url_requested
            /\ loc'[w].url_requested => (user_data.present /\ user_data.credits >= 3)
            /\ resp'[w].status = 200 => loc'[w].url_requested]_vars

\* a user with 2 credits was refused and no signed URL was requested
C19_Witness ==
    \E w \in Workers :
        /\ pc[w] = "done" /\ req[w].op = "get_agent_url"
        /\ resp[w].status = 402 /\ ~loc[w].url_requested
        /\ users[req[w].uid].present /\ users[req[w].uid].credits = 2

\* C18: a sign-in writes a user record (with credits 30) only when no record
\* exists for the uid at the time of the write, so that no sign-in, in any
\* interleaving with other requests, writes the credits of an existing record.
C18_SignInNeverOverwrites ==
    [][\A w \in Workers :
        (pc[w] = "ss_set" /\ pc'[w] = "done" /\ resp'[w].status = 201) =>
            ~users[req[w].uid].present]_vars

\* C20: the debit of create_project is not guarded by the balance the store
\* holds when it is written: a request that passed the check completes with
\* 201 and writes the balance it read minus one, so two concurrent requests
\* that both read a balance sufficient for one of them both complete.
C20_ConcurrentRequestsBothProceed ==
    [][\A w \in Workers :
        (pc[w] = "cp_debit" /\ pc'[w] = "done") =>
            /\ resp'[w].status = 201
            /\ loc[w].user_credits >= 1
            /\ users'[req[w].uid].credits = loc[w].user_credits - 1]_vars

\* two create_project requests of the same user both read the balance 1,
\* both passed the check and both created a project; the balance is 0
C20_Witness ==
    /\ \A w \in {1, 2} :
          /\ CreateDone(w) /\ resp[w].status = 201
          /\ req[w].uid = "u1" /\ loc[w].user_credits = 1
          /\ IsProject(projects["u1"][loc[w].project_id])
    /\ loc[1].project_id # loc[2].project_id
    /\ users["u1"].credits = 0

\* worker w finished a billable request with success
BillableDone(w) ==
    \/ CreateDone(w) /\ resp[w].status = 201
    \/ AnalysisDone(w) /\ resp[w].status = 200

\* the balance the debit of worker w alone leaves, from the balance it read
LeftAlone(w) ==
    IF req[w].op = "create_project" THEN loc[w].user_credits - 1
    ELSE IF loc[w].user_credits - resp[w].cost > 0
         THEN loc[w].user_credits - resp[w].cost ELSE 0

\* two finished billable requests of one user that proceeded on the same
\* observed balance
SameObservedBalance(v, w) ==
    /\ v # w /\ BillableDone(v) /\ BillableDone(w)
    /\ req[v].uid = req[w].uid
    /\ loc[v].user_credits = loc[w].user_credits

LedgerWrite(w) ==
    /\ pc[w] \in {"cp_debit", "ta_debit", "au_update", "pcr_update_user"}
    /\ pc'[w] # pc[w]

\* C22: the credits of an existing user change only in the debit step of a
\* project creation or of an analysis, in an admin update, or in the credit of
\* an approved request; and a request that ends rejected or failed has
\* written no credits.
C22_OnlyLedgerOperationsChangeCredits ==
    [][/\ \A u \in Uids :
            (users[u].present /\ users'[u] # users[u]) => \E w \in Workers : LedgerWrite(w)
       /\ \A w \in Workers :
            (pc'[w] = "done" /\ resp'[w].status \notin {200, 201}) =>
                (~loc'[w].debited /\ ~loc'[w].credited)]_vars

\* the ids of the session records stored under the node projects/{u}/{p}
SessionIds(u, p) == DOMAIN projects[u][p].practiceSessions

\* every session id stored anywhere
AllSessionIds == UNION {SessionIds(u, p) : u \in Uids, p \in ProjectIds}

\* worker w deletes the node projects/{u}/{p} in this step
Deletes(w, u, p) ==
    /\ pc[w] = "dp_delete" /\ req[w].uid = u /\ req[w].project_id = p
    /\ projects'[u][p] = EmptyNode

\* C23: the step of an analysis that writes its session adds exactly one
\* record, under an id no node holds; an analysis that ends with 200 has
\* made that step; every session record stored before a step is stored
\* unchanged after it, unless the step deletes its project; and no other step
\* adds a session record.
C23_SessionsAreWrittenOnce ==
    [][/\ \A w \in Workers :
            (pc[w] = "ta_set_session" /\ pc'[w] = "ta_get_user") =>
                LET u == req[w].uid  p == req[w].project_id  s == loc'[w].session_id IN
                /\ s \notin AllSessionIds
                /\ DOMAIN projects'[u][p].practiceSessions = SessionIds(u, p) \cup {s}
                /\ \A v \in Uids, q \in ProjectIds :
                      <<v, q>> # <<u, p>> => projects'[v][q] = projects[v][q]
       /\ \A w \in Workers :
            (pc'[w] = "done" /\ req'[w].op = "end_session_and_analyze"
                /\ resp'[w].status = 200) => loc'[w].session_written
       /\ \A u \in Uids, p \in ProjectIds :
            /\ \A s \in SessionIds(u, p) :
                  \/ /\ s \in DOMAIN projects'[u][p].practiceSessions
                     /\ projects'[u][p].practiceSessions[s] = projects[u][p].practiceSessions[s]
                  \/ \E w \in Workers : Deletes(w, u, p)
            /\ \A s \in DOMAIN projects'[u][p].practiceSessions :
                  s \notin SessionIds(u, p) =>
                      \E w \in Workers : pc[w] = "ta_set_session" /\ pc'[w] = "ta_get_user"
      ]_vars

\* two analyses of one project have succeeded and the node holds both session
\* records, the first one as it was written
C23_Witness ==
    \E w \in Workers :
        /\ AnalysisDone(w) /\ resp[w].status = 200 /\ loc[w].session_id = 2
        /\ SessionIds(req[w].uid, req[w].project_id) = {1, 2}

\* C24: once a delete_project request has answered 200, nothing is stored
\* under the path of that project.
C24_DeletedProjectStaysEmpty ==
    \A w \in Workers :
        (pc[w] = "done" /\ req[w].op = "delete_project" /\ resp[w].status = 200) =>
            projects[req[w].uid][req[w].project_id] = EmptyNode

\* C25: an analysis that answers 200 leaves a balance that is not above the
\* balance it read, whatever durationSeconds the request carried.
C25_AnalysisNeverIncreasesBalance ==
    \A w \in Workers :
        (AnalysisDone(w) /\ resp[w].status = 200) =>
            resp[w].remaining <= loc[w].user_credits

\* the user whose credits the admin request of worker v writes, and the
\* amount it adds
GrantTarget(v) ==
    IF req[v].op = "admin_update_credits" THEN req[v].target ELSE loc[v].req_data.userId
Granted(v) ==
    IF req[v].op = "admin_update_credits" THEN req[v].add_credits.n
    ELSE loc[v].req_data.requested_credits.n

\* worker v has added credits to the user of worker w's create_project after
\* w read the balance: both read the same balance, and the stored balance is
\* the one v wrote
GrantedDuringCreation(v, w) ==
    /\ v # w
    /\ req[v].op \in {"admin_update_credits", "process_credit_request"}
    /\ loc[v].credited /\ Granted(v) > 0
    /\ GrantTarget(v) = req[w].uid
    /\ loc[v].user_credits = loc[w].user_credits
    /\ users[req[w].uid].credits = loc[v].user_credits + Granted(v)

\* C26: when credits were added to a user while a create_project of that user
\* was between its read and its debit, the debit leaves the balance read at
\* the start plus the credits added minus 1.
C26_GrantSurvivesCreation ==
    [][\A w, v \in Workers :
          (/\ pc[w] = "cp_debit" /\ pc'[w] = "done" /\ resp'[w].status = 201
           /\ GrantedDuringCreation(v, w)) =>
              users'[req[w].uid].credits = loc[w].user_credits + Granted(v) - 1]_vars

=============================================================================
